---- MODULE Spec2Model ----
(***************************************************************************)
(* A model of the Content Ops automation package (python-automation):      *)
(*   - AutomationScheduler (scheduler.py): the registry of four recurring  *)
(*     jobs, the polling loop of run(), the job wrappers, run_job_once and *)
(*     the health check (Spec; the probes in detail in StoreSpec);         *)
(*   - ContentSync (content_sync.py): the synchronisation steps over the   *)
(*     two sites' tables and run_full_sync (SyncSpec), and direct calls of *)
(*     get_recent_posts and sync_user_data (CallSpec);                     *)
(*   - DatabaseBackup (backup.py): create, upload, cleanup and the full    *)
(*     backup process over a backup directory (BackupSpec);                *)
(*   - R2Storage (r2_storage.py): the operations of a constructed client   *)
(*     over a bucket (StoreSpec), and the construction of a client and of  *)
(*     the objects that own one (CtorSpec);                                *)
(*   - get_config (config.py) over the environment (ConfSpec).             *)
(* Time is counted in minutes since a Monday 00:00.  The scheduler part    *)
(* describes an AutomationScheduler object whose collaborators have been   *)
(* constructed.                                                            *)
(***************************************************************************)
EXTENDS Integers, Sequences, FiniteSets, TLC

VARIABLES
    now,          \* wall clock, minutes since Monday 00:00
    pc,           \* position of the scheduler process
    next_run,     \* schedule.Job.next_run of each registered job
    last_run,     \* schedule.Job.last_run of each registered job (Unset = never)
    runnable,     \* the sorted runnable jobs run_pending still has to run
    tick,         \* what the running/last run_pending call saw when it started
    executed,     \* the job executions of the running/last run_pending call
    escaped,      \* origin of the last exception that reached the loop of run()
    afterError,   \* the loop came through its "except Exception" handler
    interrupted,  \* KeyboardInterrupt was delivered
    adhoc,        \* the last run_job_once call and what it returned
    cli,          \* status line and exit code of the last "run-job" command
    adhocCalls,   \* number of run_job_once calls made so far
    faults,       \* number of exceptions run_pending raised so far
    db,           \* committed content of the database: table name -> set of rows
    db_connection,\* ContentSync.db_connection: "none" or "open"
    syncpc,       \* position inside run_full_sync ("idle" outside of it)
    fs,           \* the steps the running/last run_full_sync invoked, its result
    call,         \* the last direct sync_featured_content call
    prevCall,     \* the direct sync_featured_content call before it
    syncOps,      \* number of ContentSync operations made so far
    dbFaults,     \* number of database failures injected so far
    rp,           \* the last direct get_recent_posts call and how it ended
    ud,           \* the last direct sync_user_data call
    prevUd,       \* the direct sync_user_data call before it
    bclock,       \* wall clock of the backup host, in half seconds
    files,        \* the backup directory: file name -> [mtime, dump, complete]
    remote,       \* the object keys uploaded to the bucket
    bk,           \* the last DatabaseBackup call and how it ended
    creates,      \* the create_backup calls made so far: [path, at]
    bops,         \* number of DatabaseBackup calls made so far
    bucket,       \* the objects of the R2 bucket: key -> [age, etag]
    r2call,       \* the last R2Storage call and how it ended
    health,       \* the last health check: its probes and its two flags
    sops,         \* number of storage calls and health checks made so far
    environ,      \* os.environ: variable name -> text
    dotenv,       \* the variables of the .env file
    conf,         \* the last get_config call and how it ended
    ctor          \* the construction of an R2Storage object: position, attributes

schedVars == <<now, pc, next_run, last_run, runnable, tick, executed,
               escaped, afterError, interrupted, adhoc, cli, adhocCalls,
               faults>>

syncVars == <<db, db_connection, syncpc, fs, call, prevCall, syncOps, dbFaults>>

callVars == <<rp, ud, prevUd>>

backupVars == <<bclock, files, remote, bk, creates, bops>>

storeVars == <<bucket, r2call, health, sops>>

confVars == <<environ, dotenv, conf>>

ctorVars == <<ctor>>

\* what the actions of one component leave alone
notSched == <<syncVars, callVars, backupVars, storeVars, confVars, ctorVars>>
notSync  == <<schedVars, callVars, backupVars, storeVars, confVars, ctorVars>>
notCall  == <<schedVars, syncpc, fs, call, prevCall, backupVars, storeVars, confVars,
              ctorVars>>
notSchedConn == <<db, syncpc, fs, call, prevCall, syncOps, dbFaults, callVars,
                  backupVars, storeVars, confVars, ctorVars>>
notBackup == <<schedVars, syncVars, callVars, storeVars, confVars, ctorVars>>
notStore == <<schedVars, db, syncpc, fs, call, prevCall, syncOps, dbFaults, callVars,
              backupVars, confVars, ctorVars>>
notConf == <<schedVars, syncVars, callVars, backupVars, storeVars, ctorVars>>
notCtor == <<schedVars, syncVars, callVars, backupVars, storeVars, dotenv>>

vars == <<schedVars, syncVars, callVars, backupVars, storeVars, confVars, ctorVars>>

(***************************************************************************)
(* Time                                                                    *)
(***************************************************************************)
\* the clock unit is one poll interval: time.sleep(60)
PollSeconds == 60
PollTicks   == PollSeconds \div PollSeconds
Hour == 3600 \div PollSeconds
Day  == 24 * Hour
Week == 7 * Day

Unset == -1

TimeOfDay(t) == t % Day
DayStart(t)  == t - TimeOfDay(t)
Weekday(t)   == (t \div Day) % 7      \* Monday = 0 ... Sunday = 6

(***************************************************************************)
(* Bounds                                                                  *)
(***************************************************************************)
\* the scheduler is constructed on a Sunday at 01:59 or at 02:00, shortly
\* before the daily and the weekly job fall due, or on the Monday after at
\* 03:00, when only the hourly job falls due
FirstStart  == 6 * Day + 2 * Hour - 1
QuietStart  == 7 * Day + 3 * Hour
StartTimes  == {FirstStart, FirstStart + 1, QuietStart}
\* minutes of wall-clock time explored after FirstStart
Horizon     == 64
\* minutes of wall-clock time explored after QuietStart
QuietHorizon == 363
LoopEnd(t)  == IF t >= QuietStart THEN QuietStart + QuietHorizon
                                  ELSE FirstStart + Horizon
\* a job action takes 0..MaxDuration minutes
MaxDuration == 1
\* run_job_once calls made before run() is entered
MaxAdhoc    == 1
\* exceptions raised by run_pending itself
MaxFaults   == 1
\* ContentSync operations (direct calls and full synchronisations)
MaxSyncOps  == 2
\* database failures injected into the ContentSync operations
MaxDbFaults == 1

Durations == 0..MaxDuration

(***************************************************************************)
(* The registry built by _setup_schedules, in registration order           *)
(***************************************************************************)
SyncEveryHours == 6
BackupAtHour   == 2
CleanupAtHour  == 3
Sunday         == 6

NoValue == "none"

setup_schedules ==
    << [name |-> "backup",       unit |-> "days",  interval |-> 1,
        at |-> BackupAtHour * Hour,  start_day |-> NoValue],
       [name |-> "content_sync", unit |-> "hours", interval |-> SyncEveryHours,
        at |-> NoValue,              start_day |-> NoValue],
       [name |-> "cleanup",      unit |-> "weeks", interval |-> 1,
        at |-> CleanupAtHour * Hour, start_day |-> Sunday],
       [name |-> "health_check", unit |-> "hours", interval |-> 1,
        at |-> NoValue,              start_day |-> NoValue] >>

JobNames == { setup_schedules[i].name : i \in 1..Len(setup_schedules) }

RegIndex(j) == CHOOSE i \in 1..Len(setup_schedules) : setup_schedules[i].name = j

Cadence(j) == setup_schedules[RegIndex(j)]

\* next occurrence of time-of-day `at' strictly after t
NextDailyAt(t, at) ==
    IF TimeOfDay(t) < at THEN DayStart(t) + at ELSE DayStart(t) + Day + at

\* next occurrence of weekday `wd' at time-of-day `at' strictly after t
NextWeeklyAt(t, wd, at) ==
    LET daysAhead == (wd + 7 - Weekday(t)) % 7
        cand      == DayStart(t) + daysAhead * Day + at
    IN  IF cand > t THEN cand ELSE cand + Week

\* schedule.Job._schedule_next_run evaluated at time t for job j
ScheduleNextRunStuck(j, t) == t

ScheduleNextRun(j, t) ==
    LET c == Cadence(j) IN
    CASE c.unit = "hours" -> t + c.interval * Hour
      [] c.unit = "days"  -> NextDailyAt(t, c.at)
      [] c.unit = "weeks" -> NextWeeklyAt(t, c.start_day, c.at)

(***************************************************************************)
(* run_pending: the runnable jobs, sorted by next_run (a stable sort)      *)
(***************************************************************************)
should_run(j, t, nr) == t >= nr[j]

RECURSIVE FilterDue(_, _, _)
FilterDue(s, t, nr) ==
    IF s = <<>> THEN <<>>
    ELSE IF should_run(Head(s), t, nr)
         THEN <<Head(s)>> \o FilterDue(Tail(s), t, nr)
         ELSE FilterDue(Tail(s), t, nr)

\* insert j behind every element whose next_run is not larger (stability)
RECURSIVE InsertSorted(_, _, _)
InsertSorted(j, s, nr) ==
    IF s = <<>> THEN <<j>>
    ELSE IF nr[j] < nr[Head(s)]
         THEN <<j>> \o s
         ELSE <<Head(s)>> \o InsertSorted(j, Tail(s), nr)

RECURSIVE SortByNextRun(_, _)
SortByNextRun(s, nr) ==
    IF s = <<>> THEN <<>>
    ELSE InsertSorted(s[Len(s)], SortByNextRun(SubSeq(s, 1, Len(s) - 1), nr), nr)

RegistrationOrder == [i \in 1..Len(setup_schedules) |-> setup_schedules[i].name]

RunnableJobsUnsorted(t, nr) == FilterDue(RegistrationOrder, t, nr)

RunnableJobs(t, nr) == SortByNextRun(FilterDue(RegistrationOrder, t, nr), nr)

(***************************************************************************)
(* The job wrappers _run_backup_job, _run_content_sync_job,                *)
(* _run_cleanup_job, _run_health_check: the action inside the try block    *)
(* reports success ("ok"), reports failure ("failed") or raises an         *)
(* Exception ("raised"); the wrapper logs and returns.                     *)
(***************************************************************************)
\* full_backup_process, run_full_sync and the two health probes return a
\* success flag; the cleanup calls return nothing the wrapper looks at; any
\* of them may be left by an Exception (MemoryError, OSError, ...)
ActionOutcomes(j) ==
    IF j = "cleanup" THEN {"ok", "raised"} ELSE {"ok", "failed", "raised"}

JobWrapperRethrow(o) == IF o = "raised" THEN "raised" ELSE "returned"

JobWrapper(o) == "returned"

(***************************************************************************)
(* What the job actions do to the connection the ContentSync object caches *)
(***************************************************************************)
\* the points at which the database can fail under _check_database_health
HealthDbFaults == {"none", "connect", "cursor", "execute"}

\* _check_database_health over the cached connection c: the probe obtains
\* the connection through ContentSync._get_db_connection, runs SELECT 1 and
\* closes its cursor; the connection stays cached on the ContentSync object
check_database_health(c, f) ==
    IF c # "open" /\ f = "connect" THEN [healthy |-> FALSE, conn |-> c]
    ELSE [healthy |-> f \notin {"cursor", "execute"}, conn |-> "open"]

\* ContentSync.db_connection after the action of job j: run_full_sync closes
\* and unsets it in its finally block, the health check runs the database
\* probe, the backup and cleanup jobs do not touch it
JobConnection(j, c, f) ==
    IF j = "content_sync" THEN "none"
    ELSE IF j = "health_check" THEN check_database_health(c, f).conn
    ELSE c

\* a health check that found both services healthy had a succeeding probe
ProbeMatchesOutcome(j, o, c, f) ==
    (j = "health_check" /\ o = "ok") => check_database_health(c, f).healthy

(***************************************************************************)
(* run_job_once: dispatch through job_map, outside the schedule registry   *)
(***************************************************************************)
\* the wrappers run_job_once calls for a name
JobMapKeys == {"backup", "content_sync", "cleanup", "health_check"}

job_map_fallback(name) == IF name \in JobMapKeys THEN <<name>> ELSE <<"health_check">>

job_map(name) == IF name \in JobMapKeys THEN <<name>> ELSE <<>>

\* what run_job_once returns: False for an unknown name or an exception of
\* the wrapper, True whenever the wrapper returned
run_job_once_result(name, o) ==
    name \in JobMapKeys /\ JobWrapper(o) = "returned"

\* the registry after run_job_once(name) finished at time t: the wrapper is
\* called directly, schedule.Job.run is not involved
run_job_once_reschedules(name, t, nr) ==
    IF name \in JobMapKeys THEN [nr EXCEPT ![name] = ScheduleNextRun(name, t)] ELSE nr

run_job_once_next_run(name, t, nr) == nr

run_job_once_last_run(name, t, lr) == lr

\* names the "run-job" command accepts (click.Choice)
CliChoices == {"backup", "content_sync", "cleanup", "health_check"}

\* names handed to run_job_once by API callers
AdhocNames == JobMapKeys \cup {"reindex"}

\* the echo of the run-job command and the exit status of the process
run_job_echo(success) == IF success THEN "completed successfully" ELSE "failed"

run_job_exit_code(success) == 0

NoAdhoc == [name |-> NoValue, ret |-> FALSE, ran |-> <<>>, outcome |-> NoValue,
            at |-> Unset, nr |-> <<>>, lr |-> <<>>]

NoCli == [line |-> NoValue, exit |-> Unset]

NoTick == [at |-> Unset, nr |-> <<>>, lr |-> <<>>, due |-> <<>>]

(***************************************************************************)
(* The scheduler process                                                   *)
(***************************************************************************)
\* where the loop of run() continues after "except Exception" and its sleep
LoopAfterExceptionBreaks == "stopped"

LoopAfterException == "run_pending"

SchedInit ==
    /\ now \in StartTimes
    /\ pc = "constructed"
    /\ next_run = [j \in JobNames |-> ScheduleNextRun(j, now)]
    /\ last_run = [j \in JobNames |-> Unset]
    /\ runnable = <<>>
    /\ tick = NoTick
    /\ executed = <<>>
    /\ escaped = "none"
    /\ afterError = FALSE
    /\ interrupted = FALSE
    /\ adhoc = NoAdhoc
    /\ cli = NoCli
    /\ adhocCalls = 0
    /\ faults = 0

\* AutomationScheduler.run_job_once(name)
RunJobOnceBody(name, o, d) ==
    LET ran == job_map(name)
        fin == IF ran = <<>> THEN now ELSE now + d
    IN  /\ pc = "constructed"
        /\ adhocCalls < MaxAdhoc
        /\ adhocCalls' = adhocCalls + 1
        /\ now' = fin
        /\ adhoc' = [name |-> name, ret |-> run_job_once_result(name, o),
                     ran |-> ran, outcome |-> IF ran = <<>> THEN NoValue ELSE o,
                     at |-> now, nr |-> next_run, lr |-> last_run]
        /\ next_run' = run_job_once_next_run(name, fin, next_run)
        /\ last_run' = run_job_once_last_run(name, fin, last_run)
        /\ UNCHANGED <<pc, runnable, tick, executed, escaped, afterError, interrupted,
                       faults>>
        /\ IF ran = <<>> THEN UNCHANGED db_connection
           ELSE \E f \in HealthDbFaults :
                   /\ ProbeMatchesOutcome(name, o, db_connection, f)
                   /\ db_connection' = JobConnection(name, db_connection, f)
    /\ UNCHANGED notSchedConn

RunJobOnce(name, o, d) ==
    /\ RunJobOnceBody(name, o, d)
    /\ cli' = NoCli

\* the "run-job <name>" command of main()
CliRunJob(name, o, d) ==
    /\ name \in CliChoices
    /\ RunJobOnceBody(name, o, d)
    /\ cli' = [line |-> run_job_echo(run_job_once_result(name, o)),
               exit |-> run_job_exit_code(run_job_once_result(name, o))]

\* run(): the initial health check, then the loop is entered
Start(o, d) ==
    /\ pc = "constructed"
    /\ now' = now + d
    /\ pc' = IF JobWrapper(o) = "returned" THEN "run_pending" ELSE "stopped"
    /\ adhoc' = NoAdhoc
    /\ cli' = NoCli
    /\ \E f \in HealthDbFaults :
          /\ ProbeMatchesOutcome("health_check", o, db_connection, f)
          /\ db_connection' = JobConnection("health_check", db_connection, f)
    /\ UNCHANGED <<next_run, last_run, runnable, tick, executed, escaped,
                   afterError, interrupted, adhocCalls, faults>>
    /\ UNCHANGED notSchedConn

\* schedule.run_pending() is entered: the runnable jobs are collected and sorted
RunPending ==
    /\ pc = "run_pending"
    /\ pc' = "running"
    /\ tick' = [at |-> now, nr |-> next_run, lr |-> last_run,
                due |-> RunnableJobs(now, next_run)]
    /\ runnable' = RunnableJobs(now, next_run)
    /\ executed' = <<>>
    /\ escaped' = "none"
    /\ UNCHANGED <<now, next_run, last_run, afterError, interrupted, adhoc, cli,
                   adhocCalls, faults>>
    /\ UNCHANGED notSched

\* schedule.Job.run() of the next runnable job: the wrapper is called, then
\* last_run and next_run are set from the clock; an exception of the wrapper
\* would leave run_pending before that
RunJob(o, d) ==
    /\ pc = "running"
    /\ runnable # <<>>
    /\ o \in ActionOutcomes(Head(runnable))
    /\ LET j   == Head(runnable)
           fin == now + d
       IN  /\ executed' = Append(executed, [job |-> j, outcome |-> o,
                                             started |-> now, finished |-> fin])
           /\ now' = fin
           /\ IF JobWrapper(o) = "returned"
              THEN /\ last_run' = [last_run EXCEPT ![j] = fin]
                   /\ next_run' = [next_run EXCEPT ![j] = ScheduleNextRun(j, fin)]
                   /\ runnable' = Tail(runnable)
                   /\ UNCHANGED <<pc, escaped>>
              ELSE /\ pc' = "caught"
                   /\ escaped' = "job"
                   /\ runnable' = <<>>
                   /\ UNCHANGED <<last_run, next_run>>
    /\ \E f \in HealthDbFaults :
          /\ ProbeMatchesOutcome(Head(runnable), o, db_connection, f)
          /\ db_connection' = JobConnection(Head(runnable), db_connection, f)
    /\ UNCHANGED <<tick, afterError, interrupted, adhoc, cli, adhocCalls, faults>>
    /\ UNCHANGED notSchedConn

\* run_pending returns to the loop
ReturnFromPending ==
    /\ pc = "running"
    /\ runnable = <<>>
    /\ pc' = "sleep"
    /\ UNCHANGED <<now, next_run, last_run, runnable, tick, executed, escaped,
                   afterError, interrupted, adhoc, cli, adhocCalls, faults>>
    /\ UNCHANGED notSched

\* time.sleep(60) after run_pending
Sleep ==
    /\ pc = "sleep"
    /\ now + PollTicks <= LoopEnd(now)
    /\ now' = now + PollTicks
    /\ pc' = "run_pending"
    /\ afterError' = FALSE
    /\ UNCHANGED <<next_run, last_run, runnable, tick, executed, escaped,
                   interrupted, adhoc, cli, adhocCalls, faults>>
    /\ UNCHANGED notSched

\* an Exception raised by the scheduling code itself inside run_pending
\* reaches "except Exception" of the loop
RunPendingRaises ==
    /\ pc = "running"
    /\ faults < MaxFaults
    /\ faults' = faults + 1
    /\ pc' = "caught"
    /\ escaped' = "internal"
    /\ runnable' = <<>>
    /\ UNCHANGED <<now, next_run, last_run, tick, executed, afterError,
                   interrupted, adhoc, cli, adhocCalls>>
    /\ UNCHANGED notSched

\* the handler logs and sleeps, the loop goes on
SleepAfterError ==
    /\ pc = "caught"
    /\ now + PollTicks <= LoopEnd(now)
    /\ now' = now + PollTicks
    /\ pc' = LoopAfterException
    /\ afterError' = TRUE
    /\ UNCHANGED <<next_run, last_run, runnable, tick, executed, escaped,
                   interrupted, adhoc, cli, adhocCalls, faults>>
    /\ UNCHANGED notSched

\* KeyboardInterrupt: "break" when it arrives in the try block, an uncaught
\* KeyboardInterrupt when it arrives in the handler's sleep
Interrupt ==
    /\ pc \in {"run_pending", "running", "sleep", "caught"}
    /\ pc' = "stopped"
    /\ interrupted' = TRUE
    /\ UNCHANGED <<now, next_run, last_run, runnable, tick, executed, escaped,
                   afterError, adhoc, cli, adhocCalls, faults>>
    /\ UNCHANGED notSched

SchedNext ==
    \/ \E name \in AdhocNames, d \in Durations :
          \E o \in ActionOutcomes(name) : RunJobOnce(name, o, d)
    \/ \E name \in CliChoices, d \in Durations :
          \E o \in ActionOutcomes(name) : CliRunJob(name, o, d)
    \/ \E o \in ActionOutcomes("health_check"), d \in Durations : Start(o, d)
    \/ RunPending
    \/ \E d \in Durations : \E o \in {"ok", "failed", "raised"} : RunJob(o, d)
    \/ ReturnFromPending
    \/ Sleep
    \/ RunPendingRaises
    \/ SleepAfterError
    \/ Interrupt

(***************************************************************************)
(* ContentSync: the database                                               *)
(* A table name is the sequence of the pieces the f-strings put together,  *)
(* a title or a content is a sequence of text pieces.  The age of a row is *)
(* the number of hours since post_modified / user_registered.              *)
(***************************************************************************)
RecentHours  == 24
RevisionDays == 30

PostsTable(prefix) == prefix \o <<"posts">>
UsersTable(site)   == <<site, "_", "users">>

FeaturedTitle(title) == <<"[Featured] ">> \o title
FeaturedGuid(id, target_site) == <<"featured-", id, "-", target_site>>

Sites == {"site1", "site2"}

Site1Domain == "site1.localhost"
Site2Domain == "site2.localhost"

Post(id, title, type, status, age, content) ==
    [ID |-> id, post_title |-> title, post_type |-> type, post_status |-> status,
     age |-> age, post_content |-> content, guid |-> <<"post-", id>>]

User(login, email, age) == [user_login |-> login, user_email |-> email, age |-> age]

\* rows the two posts tables may hold when the program starts
Site1Rows == { Post(1, <<"News">>, "post", "publish", 1, <<"see ", "CROSS_LINK_SITE2">>),
               Post(2, <<"News">>, "page", "publish", 2, <<"text">>),
               Post(3, <<"Archive">>, "post", "publish", 48, <<"text">>) }
Site2Rows == { Post(1, <<"Tips">>, "post", "publish", 3, <<"text">>),
               Post(2, <<"News">>, "featured_content", "publish", 5, <<"text">>),
               Post(3, <<"[Featured] ", "News">>, "featured_content", "publish", 6,
                    <<"text">>) }
Site1Users == { User("ann", "ann@example.org", 2) }

\* the next AUTO_INCREMENT value of a table
RECURSIVE MaxID(_)
MaxID(rows) ==
    IF rows = {} THEN 0
    ELSE LET r == CHOOSE x \in rows : TRUE
             m == MaxID(rows \ {r})
         IN  IF r.ID > m THEN r.ID ELSE m

NextID(rows) == MaxID(rows) + 1

\* ORDER BY post_modified DESC: the youngest row first
RECURSIVE OrderByModifiedDesc(_)
OrderByModifiedDesc(rows) ==
    IF rows = {} THEN <<>>
    ELSE LET r == CHOOSE x \in rows :
                     \A y \in rows : x.age < y.age \/ (x.age = y.age /\ x.ID <= y.ID)
         IN  <<r>> \o OrderByModifiedDesc(rows \ {r})

(***************************************************************************)
(* Database failures: a call is given at most one point at which the       *)
(* database service fails with a mysql.connector.Error; idx says at which  *)
(* iteration of the loop a "check" or an "insert" fails.                   *)
(***************************************************************************)
MaxFaultIdx == 2

NoFault == [point |-> "none", idx |-> 0]

DbFaults ==
    {NoFault}
    \cup { [point |-> p, idx |-> 0] :
             p \in {"connect", "select_cursor", "select", "cursor", "execute", "commit"} }
    \cup { [point |-> p, idx |-> k] : p \in {"check", "insert"}, k \in 1..MaxFaultIdx }

\* _get_db_connection: the cached connection, or a new one; connecting fails
\* at the fault point "connect" and the error is raised again
get_db_connection(c, f) ==
    IF c = "open" THEN [conn |-> "open", ok |-> TRUE]
    ELSE IF f.point = "connect" THEN [conn |-> "none", ok |-> FALSE]
    ELSE [conn |-> "open", ok |-> TRUE]

\* get_recent_posts(site_prefix, hours): res is "rows" when the call returns
\* its list and "raised" when it leaves with an exception.  When no cursor
\* was created, "if cursor" in the finally block raises UnboundLocalError in
\* place of the "return []" of the handler.
get_recent_posts(d, c, prefix, hours, f) ==
    LET g  == get_db_connection(c, f)
        tn == PostsTable(prefix)
    IN  IF ~g.ok THEN [conn |-> g.conn, res |-> "raised", rows |-> <<>>, hit |-> TRUE]
        ELSE IF f.point = "select_cursor"
        THEN [conn |-> g.conn, res |-> "raised", rows |-> <<>>, hit |-> TRUE]
        ELSE IF f.point = "select" \/ tn \notin DOMAIN d
        THEN [conn |-> g.conn, res |-> "rows", rows |-> <<>>, hit |-> TRUE]
        ELSE [conn |-> g.conn, res |-> "rows", hit |-> FALSE,
              rows |-> OrderByModifiedDesc(
                          { r \in d[tn] : /\ r.age <= hours
                                          /\ r.post_status = "publish"
                                          /\ r.post_type \in {"post", "page"} })]

\* the existence check of sync_featured_content
FeaturedExists(rows, post) ==
    \E r \in rows : r.post_title = post.post_title /\ r.post_type = "featured_content"

\* the row sync_featured_content inserts for a source post
FeaturedRow(rows, post, target_site) ==
    [ID |-> NextID(rows), post_title |-> FeaturedTitle(post.post_title),
     post_type |-> "featured_content", post_status |-> "publish", age |-> 0,
     post_content |-> post.post_content,
     guid |-> FeaturedGuid(post.ID, target_site)]

\* the for loop of sync_featured_content from its i-th post on, working on
\* the uncommitted rows of the target table
RECURSIVE FeaturedLoop(_, _, _, _, _)
FeaturedLoop(posts, rows, target_site, f, i) ==
    IF i > Len(posts) THEN [rows |-> rows, failed |-> FALSE, count |-> 0]
    ELSE IF f.point = "check" /\ f.idx = i
    THEN [rows |-> rows, failed |-> TRUE, count |-> 0]
    ELSE IF FeaturedExists(rows, posts[i])
    THEN FeaturedLoop(posts, rows, target_site, f, i + 1)
    ELSE IF f.point = "insert" /\ f.idx = i
    THEN [rows |-> rows, failed |-> TRUE, count |-> 0]
    ELSE LET rest == FeaturedLoop(posts,
                                  rows \cup {FeaturedRow(rows, posts[i], target_site)},
                                  target_site, f, i + 1)
         IN  [rest EXCEPT !.count = @ + 1]

\* sync_featured_content(source_site, target_site) on committed content d
\* with connection state c: ret is "True", "False" or "raised"
sync_featured_content(d, c, source_site, target_site, f) ==
    LET r  == get_recent_posts(d, c, <<source_site, "_">>, RecentHours, f)
        tn == PostsTable(<<target_site, "_">>)
    IN  IF r.res = "raised"
        THEN [db |-> d, conn |-> r.conn, ret |-> "raised", inserted |-> 0, hit |-> TRUE]
        ELSE IF r.rows = <<>>
        THEN [db |-> d, conn |-> r.conn, ret |-> "True", inserted |-> 0, hit |-> r.hit]
        ELSE IF f.point = "cursor"
        THEN [db |-> d, conn |-> r.conn, ret |-> "raised", inserted |-> 0, hit |-> TRUE]
        ELSE IF tn \notin DOMAIN d
        THEN [db |-> d, conn |-> r.conn, ret |-> "False", inserted |-> 0, hit |-> TRUE]
        ELSE LET l == FeaturedLoop(r.rows, d[tn], target_site, f, 1) IN
             IF l.failed \/ f.point = "commit"
             THEN [db |-> d, conn |-> r.conn, ret |-> "False", inserted |-> 0,
                   hit |-> TRUE]
             ELSE [db |-> [d EXCEPT ![tn] = l.rows], conn |-> r.conn, ret |-> "True",
                   inserted |-> l.count, hit |-> FALSE]

\* REPLACE(post_content, placeholder, url) on rows LIKE '%placeholder%'
ReplacePiece(content, placeholder, url) ==
    [i \in 1..Len(content) |-> IF content[i] = placeholder THEN url ELSE content[i]]

ReplaceInRows(rows, placeholder, url) ==
    { [r EXCEPT !.post_content = ReplacePiece(@, placeholder, url)] : r \in rows }

\* the shape shared by update_cross_site_links, sync_user_data and
\* cleanup_old_revisions: the connection is taken inside the try block, so a
\* failing connect leaves "conn" unbound for the handler and a failing
\* cursor() leaves "cursor" unbound for the finally block
StepPrologue(c, f) ==
    LET g == get_db_connection(c, f) IN
    IF ~g.ok THEN [conn |-> g.conn, res |-> "raised"]
    ELSE IF f.point = "cursor" THEN [conn |-> g.conn, res |-> "raised"]
    ELSE [conn |-> g.conn, res |-> "go"]

\* update_cross_site_links(site1_prefix, site2_prefix)
update_cross_site_links(d, c, site1_prefix, site2_prefix, f) ==
    LET p  == StepPrologue(c, f)
        t1 == PostsTable(site1_prefix)
        t2 == PostsTable(site2_prefix)
    IN  IF p.res = "raised"
        THEN [db |-> d, conn |-> p.conn, ret |-> "raised", hit |-> TRUE]
        ELSE IF f.point \in {"execute", "commit"} \/ t1 \notin DOMAIN d
                \/ t2 \notin DOMAIN d
        THEN [db |-> d, conn |-> p.conn, ret |-> "False", hit |-> TRUE]
        ELSE [db |-> [d EXCEPT
                        ![t1] = ReplaceInRows(@, "CROSS_LINK_SITE2",
                                              <<"http://", Site2Domain>>),
                        ![t2] = ReplaceInRows(@, "CROSS_LINK_SITE1",
                                              <<"http://", Site1Domain>>)],
              conn |-> p.conn, ret |-> "True", hit |-> FALSE]

\* the check query of sync_user_data: a row of the target table, as the
\* open transaction sees it, has this user_email
EmailExistsNever(rows, email) == FALSE

EmailExists(rows, email) == \E r \in rows : r.user_email = email

\* the for loop of sync_user_data from its i-th user on
RECURSIVE UserLoop(_, _, _, _)
UserLoop(users, rows, f, i) ==
    IF i > Len(users) THEN [rows |-> rows, failed |-> FALSE, count |-> 0]
    ELSE IF f.point = "check" /\ f.idx = i
    THEN [rows |-> rows, failed |-> TRUE, count |-> 0]
    ELSE IF EmailExists(rows, users[i].user_email)
    THEN UserLoop(users, rows, f, i + 1)
    ELSE IF f.point = "insert" /\ f.idx = i
    THEN [rows |-> rows, failed |-> TRUE, count |-> 0]
    ELSE LET rest == UserLoop(users, rows \cup {users[i]}, f, i + 1)
         IN  [rest EXCEPT !.count = @ + 1]

RECURSIVE OrderUsers(_)
OrderUsers(rows) ==
    IF rows = {} THEN <<>>
    ELSE LET r == CHOOSE x \in rows : \A y \in rows : x.age >= y.age
         IN  <<r>> \o OrderUsers(rows \ {r})

\* sync_user_data(source_site, target_site)
sync_user_data(d, c, source_site, target_site, f) ==
    LET p  == StepPrologue(c, f)
        sn == UsersTable(source_site)
        tn == UsersTable(target_site)
    IN  IF p.res = "raised"
        THEN [db |-> d, conn |-> p.conn, ret |-> "raised", hit |-> TRUE]
        ELSE IF f.point = "select" \/ sn \notin DOMAIN d
        THEN [db |-> d, conn |-> p.conn, ret |-> "False", hit |-> TRUE]
        ELSE LET new_users == OrderUsers({ u \in d[sn] : u.age <= RecentHours })
                 l == IF tn \in DOMAIN d THEN UserLoop(new_users, d[tn], f, 1)
                      ELSE [rows |-> {}, failed |-> new_users # <<>>, count |-> 0]
             IN  IF l.failed \/ f.point = "commit"
                 THEN [db |-> d, conn |-> p.conn, ret |-> "False", hit |-> TRUE]
                 ELSE [db |-> IF tn \in DOMAIN d THEN [d EXCEPT ![tn] = l.rows] ELSE d,
                       conn |-> p.conn, ret |-> "True", hit |-> FALSE]

\* cleanup_old_revisions(site_prefix, days)
cleanup_old_revisions(d, c, site_prefix, days, f) ==
    LET p  == StepPrologue(c, f)
        tn == PostsTable(site_prefix)
    IN  IF p.res = "raised"
        THEN [db |-> d, conn |-> p.conn, ret |-> "raised", hit |-> TRUE]
        ELSE IF f.point \in {"execute", "commit"} \/ tn \notin DOMAIN d
        THEN [db |-> d, conn |-> p.conn, ret |-> "False", hit |-> TRUE]
        ELSE [db |-> [d EXCEPT ![tn] = { r \in @ : ~(/\ r.post_type = "revision"
                                                     /\ r.age > days * 24) }],
              conn |-> p.conn, ret |-> "True", hit |-> FALSE]

(***************************************************************************)
(* run_full_sync: the seven calls of its try block, in order               *)
(***************************************************************************)
FullSyncSteps ==
    << [op |-> "sync_featured_content",   a |-> "site1", b |-> "site2"],
       [op |-> "sync_featured_content",   a |-> "site2", b |-> "site1"],
       [op |-> "update_cross_site_links", a |-> "site1", b |-> "site2"],
       [op |-> "sync_user_data",          a |-> "site1", b |-> "site2"],
       [op |-> "sync_user_data",          a |-> "site2", b |-> "site1"],
       [op |-> "cleanup_old_revisions",   a |-> "site1", b |-> NoValue],
       [op |-> "cleanup_old_revisions",   a |-> "site2", b |-> NoValue] >>

RunStep(st, d, c, f) ==
    CASE st.op = "sync_featured_content" ->
           LET r == sync_featured_content(d, c, st.a, st.b, f)
           IN  [db |-> r.db, conn |-> r.conn, ret |-> r.ret, hit |-> r.hit]
      [] st.op = "update_cross_site_links" ->
           update_cross_site_links(d, c, <<st.a>>, <<st.b>>, f)
      [] st.op = "sync_user_data" -> sync_user_data(d, c, st.a, st.b, f)
      [] st.op = "cleanup_old_revisions" ->
           cleanup_old_revisions(d, c, <<st.a>>, RevisionDays, f)

\* the budget of injected failures
Inject(f) ==
    /\ f # NoFault => dbFaults < MaxDbFaults
    /\ dbFaults' = IF f = NoFault THEN dbFaults ELSE dbFaults + 1

NoCall == [source |-> NoValue, target |-> NoValue, fault |-> NoFault, ret |-> NoValue,
           inserted |-> 0, hit |-> FALSE, before |-> <<>>, recent |-> <<>>,
           connBefore |-> NoValue]

AtIdle == [at |-> "idle", i |-> 0]
AtStep(i) == [at |-> "step", i |-> i]

NoFullSync == [invoked |-> <<>>, results |-> <<>>, hits |-> <<>>, ret |-> NoValue]

SyncIdle ==
    /\ db = <<>>
    /\ db_connection = "none"
    /\ syncpc = AtIdle
    /\ fs = NoFullSync
    /\ call = NoCall
    /\ prevCall = NoCall
    /\ syncOps = 0
    /\ dbFaults = 0

SchedIdle ==
    /\ now = 0
    /\ pc = "off"
    /\ next_run = <<>>
    /\ last_run = <<>>
    /\ runnable = <<>>
    /\ tick = NoTick
    /\ executed = <<>>
    /\ escaped = "none"
    /\ afterError = FALSE
    /\ interrupted = FALSE
    /\ adhoc = NoAdhoc
    /\ cli = NoCli
    /\ adhocCalls = 0
    /\ faults = 0

\* a ContentSync object right after construction, over some database content
SyncInit ==
    /\ \E p1 \in SUBSET Site1Rows, p2 \in SUBSET Site2Rows, u1 \in SUBSET Site1Users :
          db = ( <<"site1", "_", "posts">> :> p1 @@ <<"site2", "_", "posts">> :> p2
                 @@ <<"site1", "_", "users">> :> u1 @@ <<"site2", "_", "users">> :> {} )
    /\ db_connection = "none"
    /\ syncpc = AtIdle
    /\ fs = NoFullSync
    /\ call = NoCall
    /\ prevCall = NoCall
    /\ syncOps = 0
    /\ dbFaults = 0

\* a direct call sync_featured_content(source, target), as made by the
\* sync-featured command
SyncFeaturedCall(source, target, f) ==
    /\ syncpc = AtIdle
    /\ syncOps < MaxSyncOps
    /\ source # target
    /\ Inject(f)
    /\ LET r == sync_featured_content(db, db_connection, source, target, f) IN
       /\ db' = r.db
       /\ db_connection' = r.conn
       /\ prevCall' = call
       /\ call' = [source |-> source, target |-> target, fault |-> f, ret |-> r.ret,
                   inserted |-> r.inserted, hit |-> r.hit, before |-> db,
                   connBefore |-> db_connection,
                   recent |-> get_recent_posts(db, "open", <<source, "_">>,
                                               RecentHours, NoFault).rows]
    /\ syncOps' = syncOps + 1
    /\ UNCHANGED <<syncpc, fs>>
    /\ UNCHANGED notSync

\* run_full_sync is entered
FullSyncBegin ==
    /\ syncpc = AtIdle
    /\ syncOps < MaxSyncOps
    /\ syncpc' = AtStep(1)
    /\ fs' = NoFullSync
    /\ syncOps' = syncOps + 1
    /\ call' = NoCall
    /\ prevCall' = NoCall
    /\ UNCHANGED <<db, db_connection, dbFaults>>
    /\ UNCHANGED notSync

\* the next call of the try block; an exception leaves the try block
FullSyncStep(f) ==
    /\ syncpc.at = "step"
    /\ Inject(f)
    /\ LET r == RunStep(FullSyncSteps[syncpc.i], db, db_connection, f) IN
       /\ db' = r.db
       /\ db_connection' = r.conn
       /\ fs' = [fs EXCEPT !.invoked = Append(@, syncpc.i),
                           !.results = Append(@, r.ret),
                           !.hits = Append(@, r.hit)]
       /\ syncpc' = IF r.ret = "raised" THEN [at |-> "except", i |-> syncpc.i]
                    ELSE IF syncpc.i = Len(FullSyncSteps)
                    THEN [at |-> "return", i |-> syncpc.i]
                    ELSE AtStep(syncpc.i + 1)
    /\ UNCHANGED <<call, prevCall, syncOps>>
    /\ UNCHANGED notSync

\* "return True" or the handler's "return False", then the finally block
\* closes and unsets the connection
FullSyncEnd ==
    /\ syncpc.at \in {"return", "except"}
    /\ fs' = [fs EXCEPT !.ret = IF syncpc.at = "return" THEN "True" ELSE "False"]
    /\ db_connection' = "none"
    /\ syncpc' = AtIdle
    /\ UNCHANGED <<db, call, prevCall, syncOps, dbFaults>>
    /\ UNCHANGED notSync

SyncNext ==
    \/ \E source \in Sites, target \in Sites, f \in DbFaults :
          SyncFeaturedCall(source, target, f)
    \/ FullSyncBegin
    \/ \E f \in DbFaults : FullSyncStep(f)
    \/ FullSyncEnd

(***************************************************************************)
(* Direct calls of single ContentSync methods on one object                *)
(***************************************************************************)
MaxCalls == 2

\* rows the two users tables may hold when the program starts; two users of
\* site1 registered with the same address
CallSite1Users == { User("ann", "a@example.org", 2), User("bob", "a@example.org", 3),
                    User("cat", "c@example.org", 30) }
CallSite2Users == { User("amy", "a@example.org", 50), User("dan", "d@example.org", 5) }

\* no two rows of a users table share their user_email
NoDuplicateEmail(rows) ==
    \A r1 \in rows, r2 \in rows : r1.user_email = r2.user_email => r1 = r2

\* the prefixes get_recent_posts is called with; the last one names no table
CallPrefixes == { <<"site1", "_">>, <<"site2", "_">>, <<"site1">> }

\* the failures that can meet get_recent_posts / sync_user_data
RecentPostsFaults ==
    { f \in DbFaults : f.point \in {"none", "connect", "select_cursor", "select"} }
UserDataFaults ==
    { f \in DbFaults : f.point \in {"none", "connect", "cursor", "select", "check",
                                     "insert", "commit"} }

NoRecent == [prefix |-> NoValue, fault |-> NoFault, res |-> NoValue, rows |-> <<>>,
             hit |-> FALSE, connBefore |-> NoValue]

NoUserCall == [source |-> NoValue, target |-> NoValue, fault |-> NoFault,
               ret |-> NoValue, hit |-> FALSE, before |-> <<>>]

CallIdle ==
    /\ rp = NoRecent
    /\ ud = NoUserCall
    /\ prevUd = NoUserCall

\* a ContentSync object right after construction, over some database content
CallInit ==
    /\ \E p1 \in SUBSET Site1Rows, u1 \in SUBSET CallSite1Users,
          u2 \in SUBSET CallSite2Users :
          db = ( <<"site1", "_", "posts">> :> p1 @@ <<"site2", "_", "posts">> :> {}
                 @@ <<"site1", "_", "users">> :> u1 @@ <<"site2", "_", "users">> :> u2 )
    /\ db_connection = "none"
    /\ syncpc = AtIdle
    /\ fs = NoFullSync
    /\ call = NoCall
    /\ prevCall = NoCall
    /\ syncOps = 0
    /\ dbFaults = 0
    /\ CallIdle

\* a direct call get_recent_posts(site_prefix)
GetRecentPostsCall(prefix, f) ==
    /\ syncOps < MaxCalls
    /\ Inject(f)
    /\ LET r == get_recent_posts(db, db_connection, prefix, RecentHours, f) IN
       /\ db_connection' = r.conn
       /\ rp' = [prefix |-> prefix, fault |-> f, res |-> r.res, rows |-> r.rows,
                 hit |-> r.hit, connBefore |-> db_connection]
    /\ syncOps' = syncOps + 1
    /\ UNCHANGED <<db, ud, prevUd>>
    /\ UNCHANGED notCall

\* a direct call sync_user_data(source, target)
SyncUserDataCall(source, target, f) ==
    /\ syncOps < MaxCalls
    /\ source # target
    /\ Inject(f)
    /\ LET r == sync_user_data(db, db_connection, source, target, f) IN
       /\ db' = r.db
       /\ db_connection' = r.conn
       /\ prevUd' = ud
       /\ ud' = [source |-> source, target |-> target, fault |-> f, ret |-> r.ret,
                 hit |-> r.hit, before |-> db]
    /\ syncOps' = syncOps + 1
    /\ UNCHANGED rp
    /\ UNCHANGED notCall

CallNext ==
    \/ \E prefix \in CallPrefixes, f \in RecentPostsFaults : GetRecentPostsCall(prefix, f)
    \/ \E source \in Sites, target \in Sites, f \in UserDataFaults :
          SyncUserDataCall(source, target, f)

(***************************************************************************)
(* DatabaseBackup (backup.py): the backup directory and its clock          *)
(* The clock counts half seconds, so that two calls can fall into one      *)
(* second of the wall clock.                                               *)
(***************************************************************************)
TicksPerSecond == 2
DaySeconds == 86400
DayTicks == DaySeconds * TicksPerSecond

MaxBackupOps == 2

\* the duration of one call, in half seconds
BackupDurations == {1, 2}

\* datetime.now().strftime("%Y%m%d_%H%M%S"): the clock at second resolution
Timestamp(t) == t \div TicksPerSecond

\* f"content_ops_backup_{timestamp}.sql"
backup_filename(t) == <<"content_ops_backup_", Timestamp(t), ".sql">>

\* r2_key = f"backups/{backup_file.name}"
r2_key(name) == <<"backups/">> \o name

\* backup_dir.glob("*.sql")
IsSqlAny(name) == TRUE

IsSql(name) == name[Len(name)] = ".sql"

SqlFiles(fls) == { n \in DOMAIN fls : IsSql(n) }

NoPath == <<>>

\* how mysqldump and the open() around it end: return code 0; a return
\* code other than 0 or a SubprocessError; an OSError
CreateOutcomes == {"ok", "failed", "os_error"}

\* create_backup at time t, writing for d half seconds, as the id-th dump:
\* open(backup_path, 'w') creates or truncates the file; a dump that fails
\* leaves the file behind and returns None; an OSError of open() leaves
\* the method
create_backup(fls, t, d, o, id) ==
    LET backup_path == backup_filename(t)
        written == [mtime |-> t + d, dump |-> id, complete |-> o = "ok"]
    IN  IF o = "os_error"
        THEN [files |-> fls, ret |-> NoPath, raised |-> TRUE, path |-> backup_path]
        ELSE [files |-> [n \in DOMAIN fls \cup {backup_path} |->
                           IF n = backup_path THEN written ELSE fls[n]],
              ret |-> IF o = "ok" THEN backup_path ELSE NoPath,
              raised |-> FALSE, path |-> backup_path]

\* how R2Storage.upload_file ends
UploadOutcomes == {"ok", "failed"}

\* upload_backup(backup_path)
upload_backup(fls, rem, backup_path, u) ==
    IF backup_path \notin DOMAIN fls THEN [remote |-> rem, ret |-> FALSE]
    ELSE IF u = "ok" THEN [remote |-> rem \cup {r2_key(backup_path)}, ret |-> TRUE]
    ELSE [remote |-> rem, ret |-> FALSE]

\* backup_file.stat().st_mtime < cutoff_date.timestamp()
IsExpired(mtime, cutoff) == mtime < cutoff

\* the for loop of cleanup_old_backups from the i-th file of the glob on;
\* unlink raises for the files in locked, which ends the try block
RECURSIVE CleanupLoop(_, _, _, _, _)
CleanupLoop(fls, order, cutoff, locked, i) ==
    IF i > Len(order) THEN [files |-> fls, failed |-> FALSE]
    ELSE IF ~IsExpired(fls[order[i]].mtime, cutoff)
    THEN CleanupLoop(fls, order, cutoff, locked, i + 1)
    ELSE IF order[i] \in locked THEN [files |-> fls, failed |-> TRUE]
    ELSE CleanupLoop([n \in DOMAIN fls \ {order[i]} |-> fls[n]], order, cutoff,
                     locked, i + 1)

\* cleanup_old_backups(retention_days) at time t; order is the order in
\* which the glob yields the files
cleanup_old_backups(fls, t, retention_days, order, locked) ==
    CleanupLoop(fls, order, t - retention_days * DayTicks, locked, 1)

\* the orders in which a glob can yield the files of a set
Orders(S) ==
    { q \in [1..Cardinality(S) -> S] : \A i, j \in DOMAIN q : q[i] = q[j] => i = j }

RECURSIVE SomeOrder(_)
SomeOrder(S) ==
    IF S = {} THEN <<>>
    ELSE LET n == CHOOSE x \in S : TRUE IN <<n>> \o SomeOrder(S \ {n})

\* the orders in which backup_dir.glob("*.sql") can yield the files at time
\* t.  The loop passes over a file that is not expired without any effect,
\* so the orders of the expired files, each followed by the other files,
\* stand for all orders of the directory.
ExpiredFiles(fls, t, retention_days) ==
    { n \in SqlFiles(fls) : IsExpired(fls[n].mtime, t - retention_days * DayTicks) }

GlobOrders(fls, t, retention_days) ==
    LET expired == ExpiredFiles(fls, t, retention_days)
    IN  { q \o SomeOrder(SqlFiles(fls) \ expired) : q \in Orders(expired) }

\* what full_backup_process returns once the artifact exists
full_backup_result_strict(upload_success, cleanup_failed) ==
    upload_success /\ ~cleanup_failed

full_backup_result(upload_success, cleanup_failed) == upload_success

\* full_backup_process at time t: create, upload, cleanup
full_backup_process(fls, rem, t, d, o, u, retention_days, order, locked, id) ==
    LET c == create_backup(fls, t, d, o, id) IN
    IF c.raised \/ c.ret = NoPath
    THEN [files |-> c.files, remote |-> rem, ret |-> FALSE, created |-> NoPath,
          uploaded |-> FALSE, cleanupFailed |-> FALSE]
    ELSE LET up == upload_backup(c.files, rem, c.ret, u)
             cl == cleanup_old_backups(c.files, t + d, retention_days, order, locked)
         IN  [files |-> cl.files, remote |-> up.remote,
              ret |-> full_backup_result(up.ret, cl.failed), created |-> c.ret,
              uploaded |-> up.ret, cleanupFailed |-> cl.failed]

\* BACKUP_RETENTION_DAYS as configured
RetentionChoices == {7, 30}

\* at most this many files of the directory cannot be deleted
MaxLocked == 1
LockedSets(S) == { L \in SUBSET S : Cardinality(L) <= MaxLocked }

\* the deletion errors and glob orders one cleanup can meet: unlink is
\* called for expired files only, and without an error every order of the
\* glob has the same effect
CleanupInputs(fls, t, retention_days) ==
    { [order |-> SomeOrder(SqlFiles(fls)), locked |-> {}] }
    \cup { [order |-> q, locked |-> L] :
              q \in GlobOrders(fls, t, retention_days),
              L \in LockedSets(ExpiredFiles(fls, t, retention_days)) \ {{}} }

\* the clock when the DatabaseBackup object is constructed
BackupStart == 40 * DayTicks

OldFile(name, days) == [mtime |-> BackupStart - days * DayTicks, dump |-> 0,
                        complete |-> TRUE]

\* files the backup directory may hold when the object is constructed
InitialFiles ==
    backup_filename(BackupStart - 31 * DayTicks) :> OldFile("a", 31)
    @@ backup_filename(BackupStart - 29 * DayTicks) :> OldFile("c", 29)
    @@ <<"notes", ".txt">> :> OldFile("d", 35)

BoolText(b) == IF b THEN "True" ELSE "False"

NoBackupCall == [op |-> NoValue, at |-> Unset, ret |-> NoValue, retention |-> 0,
                 before |-> <<>>, locked |-> {}, created |-> NoPath,
                 outcome |-> NoValue, upload |-> NoValue, cleanupFailed |-> FALSE]

BackupIdle ==
    /\ bclock = 0
    /\ files = <<>>
    /\ remote = {}
    /\ bk = NoBackupCall
    /\ creates = <<>>
    /\ bops = 0

\* a DatabaseBackup object right after construction, over some directory
BackupInit ==
    /\ bclock = BackupStart
    /\ \E S \in SUBSET DOMAIN InitialFiles : files = [n \in S |-> InitialFiles[n]]
    /\ remote = {}
    /\ bk = NoBackupCall
    /\ creates = <<>>
    /\ bops = 0

\* a call create_backup()
CreateBackupCall(o, d) ==
    /\ bops < MaxBackupOps
    /\ LET c == create_backup(files, bclock, d, o, Len(creates) + 1) IN
       /\ files' = c.files
       /\ creates' = IF c.raised THEN creates
                     ELSE Append(creates, [path |-> c.path, at |-> bclock])
       /\ bk' = [NoBackupCall EXCEPT !.op = "create", !.at = bclock, !.before = files,
                                     !.ret = IF c.raised THEN "raised"
                                             ELSE IF c.ret = NoPath THEN "None"
                                             ELSE "path",
                                     !.created = c.ret, !.outcome = o]
    /\ bclock' = bclock + d
    /\ bops' = bops + 1
    /\ UNCHANGED remote
    /\ UNCHANGED notBackup

\* a call upload_backup(backup_path) for a file of the directory
UploadBackupCall(name, u, d) ==
    /\ bops < MaxBackupOps
    /\ name \in SqlFiles(files)
    /\ LET up == upload_backup(files, remote, name, u) IN
       /\ remote' = up.remote
       /\ bk' = [NoBackupCall EXCEPT !.op = "upload", !.at = bclock, !.before = files,
                                     !.ret = BoolText(up.ret), !.created = name,
                                     !.upload = u]
    /\ bclock' = bclock + d
    /\ bops' = bops + 1
    /\ UNCHANGED <<files, creates>>
    /\ UNCHANGED notBackup

\* a call cleanup_old_backups(retention_days)
CleanupBackupsCall(retention_days) ==
    /\ bops < MaxBackupOps
    /\ \E in \in CleanupInputs(files, bclock, retention_days) :
          LET cl == cleanup_old_backups(files, bclock, retention_days, in.order,
                                        in.locked)
          IN  /\ files' = cl.files
              /\ bk' = [NoBackupCall EXCEPT !.op = "cleanup", !.at = bclock,
                                            !.before = files,
                                            !.retention = retention_days,
                                            !.locked = in.locked,
                                            !.cleanupFailed = cl.failed]
    /\ bops' = bops + 1
    /\ UNCHANGED <<bclock, remote, creates>>
    /\ UNCHANGED notBackup

\* a call full_backup_process()
FullBackupCall(o, u, d, retention_days) ==
    /\ bops < MaxBackupOps
    /\ LET c == create_backup(files, bclock, d, o, Len(creates) + 1) IN
       /\ \E in \in IF c.ret = NoPath THEN {[order |-> <<>>, locked |-> {}]}
                    ELSE CleanupInputs(c.files, bclock + d, retention_days) :
             LET r == full_backup_process(files, remote, bclock, d, o, u,
                                          retention_days, in.order, in.locked,
                                          Len(creates) + 1)
             IN  /\ files' = r.files
                 /\ remote' = r.remote
                 /\ bk' = [NoBackupCall EXCEPT
                             !.op = "full", !.at = bclock + d, !.before = c.files,
                             !.ret = BoolText(r.ret), !.retention = retention_days,
                             !.locked = in.locked, !.created = r.created,
                             !.outcome = o, !.upload = u,
                             !.cleanupFailed = r.cleanupFailed]
       /\ creates' = IF c.raised THEN creates
                     ELSE Append(creates, [path |-> c.path, at |-> bclock])
    /\ bclock' = bclock + d
    /\ bops' = bops + 1
    /\ UNCHANGED notBackup

BackupNext ==
    \/ \E o \in CreateOutcomes, d \in BackupDurations : CreateBackupCall(o, d)
    \/ \E name \in DOMAIN files, u \in UploadOutcomes, d \in BackupDurations :
          UploadBackupCall(name, u, d)
    \/ \E retention_days \in RetentionChoices : CleanupBackupsCall(retention_days)
    \/ \E o \in CreateOutcomes, u \in UploadOutcomes, d \in BackupDurations,
          retention_days \in RetentionChoices : FullBackupCall(o, u, d, retention_days)

(***************************************************************************)
(* R2Storage (r2_storage.py): the operations of a constructed client       *)
(* An object key is <<prefix, number>>; the age of an object is the number *)
(* of days since its LastModified.                                         *)
(***************************************************************************)
MaxStoreOps == 2

\* how a request of the boto3 client ends: a response, an error response of
\* the service (botocore ClientError), or an error that is no response of
\* the service (EndpointConnectionError, ConnectTimeoutError, ...)
StoreErrors == {"none", "client_error", "connection_error"}

\* the keys in the order in which list_objects_v2 returns them
KeyOrder == << <<"backups/", 1>>, <<"backups/", 2>>, <<"logs/", 1>> >>
Keys == { KeyOrder[i] : i \in DOMAIN KeyOrder }

Prefixes == {"", "backups/", "logs/"}
HasPrefix(key, prefix) == prefix = "" \/ key[1] = prefix

\* the first max_keys keys of the bucket under a prefix
ListedKeys(bkt, prefix, max_keys) ==
    LET match == { i \in DOMAIN KeyOrder :
                     KeyOrder[i] \in DOMAIN bkt /\ HasPrefix(KeyOrder[i], prefix) }
    IN  { KeyOrder[i] : i \in { k \in match :
                                   Cardinality({ m \in match : m < k }) < max_keys } }

\* the handlers of an operation: "except ClientError" alone, or followed by
\* "except Exception"
CatchesAll(err) == err \in {"client_error", "connection_error"}

CatchesClientError(err) == err = "client_error"

\* upload_file(local_path, r2_key)
upload_file(bkt, local_exists, key, err) ==
    IF ~local_exists THEN [bucket |-> bkt, res |-> "False", raised |-> FALSE]
    ELSE IF err # "none"
    THEN [bucket |-> bkt, res |-> "False", raised |-> ~CatchesAll(err)]
    ELSE [bucket |-> [k \in DOMAIN bkt \cup {key} |->
                        IF k = key THEN [age |-> 0, etag |-> "new"] ELSE bkt[k]],
          res |-> "True", raised |-> FALSE]

\* download_file(r2_key, local_path); a key the bucket does not hold is
\* answered with an error response
download_file(bkt, key, err) ==
    IF err # "none"
    THEN [bucket |-> bkt, res |-> "False", raised |-> ~CatchesAll(err)]
    ELSE [bucket |-> bkt, res |-> IF key \in DOMAIN bkt THEN "True" ELSE "False",
          raised |-> FALSE]

\* list_objects(prefix, max_keys)
list_objects(bkt, prefix, max_keys, err) ==
    IF err # "none"
    THEN [objects |-> {}, raised |-> ~CatchesClientError(err)]
    ELSE [objects |-> ListedKeys(bkt, prefix, max_keys), raised |-> FALSE]

\* delete_object(r2_key)
delete_object(bkt, key, err) ==
    IF err # "none"
    THEN [bucket |-> bkt, res |-> "False", raised |-> ~CatchesClientError(err)]
    ELSE [bucket |-> [k \in DOMAIN bkt \ {key} |-> bkt[k]], res |-> "True",
          raised |-> FALSE]

\* object_exists(r2_key)
object_exists(bkt, key, err) ==
    IF err # "none"
    THEN [res |-> "False", raised |-> ~CatchesClientError(err)]
    ELSE [res |-> IF key \in DOMAIN bkt THEN "True" ELSE "False", raised |-> FALSE]

\* get_object_metadata(r2_key)
get_object_metadata(bkt, key, err) ==
    IF err # "none"
    THEN [res |-> "None", raised |-> ~CatchesClientError(err)]
    ELSE [res |-> IF key \in DOMAIN bkt THEN "metadata" ELSE "None", raised |-> FALSE]

\* max_keys of list_objects when the caller gives none
MaxKeysDefault == 1000

\* the for loop of R2Storage.cleanup_old_backups from the i-th listed object
\* on; raised says that a delete_object call left with an exception
RECURSIVE R2CleanupLoop(_, _, _, _, _)
R2CleanupLoop(bkt, objects, retention_days, err, i) ==
    IF i > Len(objects) THEN [bucket |-> bkt, count |-> 0, raised |-> FALSE]
    ELSE IF bkt[objects[i]].age > retention_days
    THEN LET dl == delete_object(bkt, objects[i], err) IN
         IF dl.raised THEN [bucket |-> bkt, count |-> 0, raised |-> TRUE]
         ELSE LET rest == R2CleanupLoop(dl.bucket, objects, retention_days, err, i + 1)
              IN  [rest EXCEPT !.count = @ + IF dl.res = "True" THEN 1 ELSE 0]
    ELSE R2CleanupLoop(bkt, objects, retention_days, err, i + 1)

\* R2Storage.cleanup_old_backups(prefix, retention_days): list_err meets the
\* listing, delete_err the deletions; "except Exception" returns 0
r2_cleanup_old_backups(bkt, prefix, retention_days, list_err, delete_err) ==
    LET l == list_objects(bkt, prefix, MaxKeysDefault, list_err) IN
    IF l.raised THEN [bucket |-> bkt, count |-> 0, raised |-> FALSE]
    ELSE LET objects == SelectSeq(KeyOrder, LAMBDA k : k \in l.objects)
             d == R2CleanupLoop(bkt, objects, retention_days, delete_err, 1)
         IN  [bucket |-> d.bucket, count |-> IF d.raised THEN 0 ELSE d.count,
              raised |-> FALSE]

\* _check_r2_health: list_objects(max_keys=1) inside try/except Exception
check_r2_health(bkt, err) == ~list_objects(bkt, "", 1, err).raised

\* _run_health_check over the cached connection c and the bucket
run_health_check(c, db_fault, bkt, err) ==
    [db_healthy |-> check_database_health(c, db_fault).healthy,
     r2_healthy |-> check_r2_health(bkt, err),
     conn |-> check_database_health(c, db_fault).conn]

\* objects the bucket may hold when the client is constructed
InitialObjects ==
    <<"backups/", 1>> :> [age |-> 31, etag |-> "a"]
    @@ <<"backups/", 2>> :> [age |-> 29, etag |-> "b"]
    @@ <<"logs/", 1>> :> [age |-> 40, etag |-> "c"]

NoStoreCall == [op |-> NoValue, key |-> <<>>, err |-> "none", res |-> NoValue,
                raised |-> FALSE, objects |-> {}, count |-> 0, before |-> <<>>]

NoHealth == [db_fault |-> NoValue, r2_err |-> NoValue, connBefore |-> NoValue,
             db_healthy |-> FALSE, r2_healthy |-> FALSE]

StoreIdle ==
    /\ bucket = <<>>
    /\ r2call = NoStoreCall
    /\ health = NoHealth
    /\ sops = 0

\* an R2Storage client and an AutomationScheduler right after construction
StoreInit ==
    /\ \E S \in SUBSET DOMAIN InitialObjects : bucket = [k \in S |-> InitialObjects[k]]
    /\ r2call = NoStoreCall
    /\ health = NoHealth
    /\ sops = 0

\* the bookkeeping every storage call shares
StoreCall(rec, bkt) ==
    /\ sops < MaxStoreOps
    /\ sops' = sops + 1
    /\ r2call' = [rec EXCEPT !.before = bucket]
    /\ bucket' = bkt
    /\ UNCHANGED <<health, db_connection>>
    /\ UNCHANGED notStore

UploadFileCall(key, local_exists, err) ==
    LET r == upload_file(bucket, local_exists, key, err) IN
    StoreCall([NoStoreCall EXCEPT !.op = "upload", !.key = key,
                                  !.err = IF local_exists THEN err ELSE "none",
                                  !.res = r.res, !.raised = r.raised], r.bucket)

DownloadFileCall(key, err) ==
    LET r == download_file(bucket, key, err) IN
    StoreCall([NoStoreCall EXCEPT !.op = "download", !.key = key, !.err = err,
                                  !.res = r.res, !.raised = r.raised], r.bucket)

ListObjectsCall(prefix, max_keys, err) ==
    LET r == list_objects(bucket, prefix, max_keys, err) IN
    StoreCall([NoStoreCall EXCEPT !.op = "list", !.key = <<prefix>>, !.err = err,
                                  !.res = IF r.objects = {} THEN "empty" ELSE "objects",
                                  !.objects = r.objects, !.raised = r.raised], bucket)

DeleteObjectCall(key, err) ==
    LET r == delete_object(bucket, key, err) IN
    StoreCall([NoStoreCall EXCEPT !.op = "delete", !.key = key, !.err = err,
                                  !.res = r.res, !.raised = r.raised], r.bucket)

ObjectExistsCall(key, err) ==
    LET r == object_exists(bucket, key, err) IN
    StoreCall([NoStoreCall EXCEPT !.op = "exists", !.key = key, !.err = err,
                                  !.res = r.res, !.raised = r.raised], bucket)

GetObjectMetadataCall(key, err) ==
    LET r == get_object_metadata(bucket, key, err) IN
    StoreCall([NoStoreCall EXCEPT !.op = "metadata", !.key = key, !.err = err,
                                  !.res = r.res, !.raised = r.raised], bucket)

\* R2Storage.cleanup_old_backups(prefix, retention_days); the error meets
\* the listing or the deletions
R2CleanupCall(prefix, retention_days, at, err) ==
    LET r == r2_cleanup_old_backups(bucket, prefix, retention_days,
                                    IF at = "list" THEN err ELSE "none",
                                    IF at = "delete" THEN err ELSE "none")
    IN  StoreCall([NoStoreCall EXCEPT !.op = "cleanup", !.key = <<prefix, at>>,
                                      !.err = err,
                                      !.res = IF r.count = 0 THEN "0" ELSE "deleted",
                                      !.count = r.count, !.raised = r.raised],
                  r.bucket)

\* one _run_health_check of the scheduler
HealthCheckCall(db_fault, err) ==
    /\ sops < MaxStoreOps
    /\ sops' = sops + 1
    /\ LET h == run_health_check(db_connection, db_fault, bucket, err) IN
       /\ health' = [db_fault |-> db_fault, r2_err |-> err,
                     connBefore |-> db_connection,
                     db_healthy |-> h.db_healthy, r2_healthy |-> h.r2_healthy]
       /\ db_connection' = h.conn
    /\ UNCHANGED <<bucket, r2call>>
    /\ UNCHANGED notStore

StoreNext ==
    \/ \E key \in Keys, local_exists \in BOOLEAN, err \in StoreErrors :
          UploadFileCall(key, local_exists, err)
    \/ \E key \in Keys, err \in StoreErrors : DownloadFileCall(key, err)
    \/ \E prefix \in Prefixes, max_keys \in {1, MaxKeysDefault}, err \in StoreErrors :
          ListObjectsCall(prefix, max_keys, err)
    \/ \E key \in Keys, err \in StoreErrors : DeleteObjectCall(key, err)
    \/ \E key \in Keys, err \in StoreErrors : ObjectExistsCall(key, err)
    \/ \E key \in Keys, err \in StoreErrors : GetObjectMetadataCall(key, err)
    \/ \E prefix \in Prefixes, retention_days \in RetentionChoices,
          at \in {"list", "delete"}, err \in StoreErrors :
          R2CleanupCall(prefix, retention_days, at, err)
    \/ \E db_fault \in HealthDbFaults, err \in StoreErrors :
          HealthCheckCall(db_fault, err)

(***************************************************************************)
(* get_config (config.py)                                                  *)
(* The text of a variable is a sequence of pieces; the text of a number is *)
(* the sequence of its characters.                                         *)
(***************************************************************************)
\* the defaults of os.getenv for the settings that are texts
TextDefaults ==
    "MYSQL_HOST" :> <<"mysql">> @@ "MYSQL_DATABASE" :> <<"content_ops">>
    @@ "MYSQL_USER" :> <<"content_user">> @@ "MYSQL_PASSWORD" :> <<>>
    @@ "REDIS_HOST" :> <<"redis">> @@ "REDIS_PASSWORD" :> <<>>
    @@ "R2_ACCOUNT_ID" :> <<>> @@ "R2_ACCESS_KEY_ID" :> <<>>
    @@ "R2_SECRET_ACCESS_KEY" :> <<>> @@ "R2_BUCKET_NAME" :> <<"content-ops-backups">>
    @@ "R2_ENDPOINT" :> <<>> @@ "SITE1_DOMAIN" :> <<Site1Domain>>
    @@ "SITE2_DOMAIN" :> <<Site2Domain>> @@ "TZ" :> <<"UTC">>

\* the defaults of the settings that are numbers
RedisPortDefault == 6379
RetentionDaysDefault == 30
NumberDefaults ==
    "REDIS_PORT" :> RedisPortDefault @@ "BACKUP_RETENTION_DAYS" :> RetentionDaysDefault

ConfigKeys == DOMAIN TextDefaults \cup DOMAIN NumberDefaults

required_keys == <<"MYSQL_PASSWORD", "REDIS_PASSWORD", "R2_ACCESS_KEY_ID",
                   "R2_SECRET_ACCESS_KEY", "R2_ENDPOINT">>

DigitValue ==
    "0" :> 0 @@ "1" :> 1 @@ "2" :> 2 @@ "3" :> 3 @@ "4" :> 4 @@ "5" :> 5 @@ "6" :> 6
    @@ "7" :> 7 @@ "8" :> 8 @@ "9" :> 9

\* int(text): the number a text of digits denotes; any other text, the
\* empty one included, raises ValueError
RECURSIVE DigitsValue(_, _)
DigitsValue(text, n) ==
    IF n = 0 THEN 0 ELSE 10 * DigitsValue(text, n - 1) + DigitValue[text[n]]

ParseInt(text) ==
    IF text # <<>> /\ \A i \in DOMAIN text : text[i] \in DOMAIN DigitValue
    THEN [ok |-> TRUE, value |-> DigitsValue(text, Len(text))]
    ELSE [ok |-> FALSE, value |-> 0]

\* load_dotenv(): a variable of the .env file is set unless os.environ has it
load_dotenv(env, file) ==
    [k \in DOMAIN env \cup DOMAIN file |-> IF k \in DOMAIN env THEN env[k] ELSE file[k]]

\* os.getenv(key, default)
getenv(env, key, default) == IF key \in DOMAIN env THEN env[key] ELSE default

\* int(os.getenv(key, default)) with a default that is a number
getenv_int(env, key, default) ==
    IF key \in DOMAIN env THEN ParseInt(env[key]) ELSE [ok |-> TRUE, value |-> default]

\* "not config.get(key)": the value is the empty text
IsSetAlways(value) == TRUE

IsSet(value) == value # <<>>

\* get_config over os.environ after load_dotenv: the dictionary is built,
\* with int() applied to the two numbers, then the required keys are checked
get_config(env) ==
    LET port == getenv_int(env, "REDIS_PORT", RedisPortDefault)
        days == getenv_int(env, "BACKUP_RETENTION_DAYS", RetentionDaysDefault)
        config == [k \in ConfigKeys |->
                     IF k = "REDIS_PORT" THEN port.value
                     ELSE IF k = "BACKUP_RETENTION_DAYS" THEN days.value
                     ELSE getenv(env, k, TextDefaults[k])]
        missing_keys == SelectSeq(required_keys, LAMBDA k : ~IsSet(config[k]))
    IN  IF ~port.ok \/ ~days.ok
        THEN [raised |-> TRUE, error |-> "int", missing |-> <<>>, config |-> <<>>]
        ELSE IF missing_keys # <<>>
        THEN [raised |-> TRUE, error |-> "missing", missing |-> missing_keys,
              config |-> <<>>]
        ELSE [raised |-> FALSE, error |-> "none", missing |-> <<>>, config |-> config]

\* the texts a variable may have in os.environ when the process starts
EnvOptions(k) ==
    IF k = "REDIS_PORT" THEN << <<"6", "3", "8", "0">>, <<"abc">>, <<>> >>
    ELSE IF k = "BACKUP_RETENTION_DAYS" THEN << <<"7">>, <<"x">> >>
    ELSE IF k = "MYSQL_HOST" THEN << <<"db.internal">> >>
    ELSE << <<>>, <<"s3cret">> >>

\* the variables that are set in some environments
VaryingKeys == {"MYSQL_PASSWORD", "REDIS_PASSWORD", "R2_ACCESS_KEY_ID",
                "R2_SECRET_ACCESS_KEY", "R2_ENDPOINT", "REDIS_PORT",
                "BACKUP_RETENTION_DAYS", "MYSQL_HOST"}

\* the environments: for every variable, not set (0) or one of its texts
Environments ==
    { [k \in { x \in VaryingKeys : c[x] > 0 } |-> EnvOptions(k)[c[k]]] :
        c \in { c \in [VaryingKeys -> 0..3] :
                  \A k \in VaryingKeys : c[k] <= Len(EnvOptions(k)) } }

\* no .env file, or one that holds the endpoint and the port
DotenvFiles ==
    { <<>>, "R2_ENDPOINT" :> <<"https://r2.example">>
            @@ "REDIS_PORT" :> <<"6", "3", "8", "1">> }

NoConf == [called |-> FALSE, raised |-> FALSE, error |-> "none", missing |-> <<>>,
           config |-> <<>>, before |-> <<>>]

ConfIdle ==
    /\ environ = <<>>
    /\ dotenv = <<>>
    /\ conf = NoConf

ConfInit ==
    /\ environ \in Environments
    /\ dotenv \in DotenvFiles
    /\ conf = NoConf

\* a call get_config()
GetConfigCall ==
    /\ ~conf.called
    /\ environ' = load_dotenv(environ, dotenv)
    /\ LET r == get_config(load_dotenv(environ, dotenv)) IN
       conf' = [called |-> TRUE, raised |-> r.raised, error |-> r.error,
                missing |-> r.missing, config |-> r.config, before |-> environ]
    /\ UNCHANGED dotenv
    /\ UNCHANGED notConf

ConfNext == GetConfigCall

(***************************************************************************)
(* Construction of an R2Storage object (r2_storage.py) and of the objects  *)
(* that own one (backup.py, scheduler.py)                                  *)
(***************************************************************************)
\* the statements of R2Storage.__init__ in their order, named by the
\* attribute each one assigns
InitStatements == <<"config", "client", "bucket_name">>

\* the attributes of self a statement reads: _initialize_client reads
\* self.config for boto3.client and self.bucket_name for head_bucket
StatementReads(stmt) ==
    IF stmt = "client" THEN {"config", "bucket_name"}
    ELSE IF stmt = "bucket_name" THEN {"config"}
    ELSE {}

\* how the head_bucket request of _initialize_client ends
HeadOutcomes == {"ok", "no_credentials", "client_error", "connection_error"}

\* the exception a statement leaves with once its reads have succeeded:
\* get_config raises ValueError; _initialize_client raises NoCredentialsError
\* and ClientError again and has no handler for any other error
StatementError(stmt, cfg, head) ==
    IF stmt = "config" THEN (IF cfg.raised THEN "ValueError" ELSE "none")
    ELSE IF stmt = "client"
    THEN CASE head = "ok" -> "none"
           [] head = "no_credentials" -> "NoCredentialsError"
           [] head = "client_error" -> "ClientError"
           [] head = "connection_error" -> "EndpointConnectionError"
    ELSE "none"

\* the statements from the i-th on over the attributes assigned so far; the
\* read of an attribute that is not assigned raises AttributeError
RECURSIVE RunStatements(_, _, _, _, _)
RunStatements(stmts, i, attrs, cfg, head) ==
    IF i > Len(stmts) THEN [attrs |-> attrs, error |-> "none", head_called |-> TRUE]
    ELSE IF ~(StatementReads(stmts[i]) \subseteq attrs)
    THEN [attrs |-> attrs, error |-> "AttributeError", head_called |-> FALSE]
    ELSE IF StatementError(stmts[i], cfg, head) # "none"
    THEN [attrs |-> attrs, error |-> StatementError(stmts[i], cfg, head),
          head_called |-> stmts[i] = "client"]
    ELSE RunStatements(stmts, i + 1, attrs \cup {stmts[i]}, cfg, head)

\* R2Storage.__init__ over an environment and a bucket service
r2_storage_init(env, head) ==
    RunStatements(InitStatements, 1, {}, get_config(env), head)

\* the classes whose __init__ is called: R2Storage itself, DatabaseBackup
\* and AutomationScheduler, which construct an R2Storage without a handler
Owners == {"R2Storage", "DatabaseBackup", "AutomationScheduler"}

\* the environments of a construction: the required secrets vary
CtorEnvironments ==
    { e \in Environments : DOMAIN e \subseteq {"MYSQL_PASSWORD", "REDIS_PASSWORD",
                                               "R2_ACCESS_KEY_ID",
                                               "R2_SECRET_ACCESS_KEY", "R2_ENDPOINT"} }

NoCtor == [pc |-> "none", attrs |-> {}, error |-> "none", head |-> "none",
           head_called |-> FALSE, owner |-> "none", owner_pc |-> "none"]

CtorIdle == ctor = NoCtor

\* before the constructor is called
CtorInit ==
    /\ environ \in CtorEnvironments
    /\ dotenv \in DotenvFiles
    /\ conf = NoConf
    /\ \E head \in HeadOutcomes, owner \in Owners :
          ctor = [NoCtor EXCEPT !.pc = "new", !.head = head, !.owner = owner,
                                !.owner_pc = "new"]

\* R2Storage()
R2StorageConstruct ==
    /\ ctor.pc = "new"
    /\ environ' = load_dotenv(environ, dotenv)
    /\ LET c == get_config(load_dotenv(environ, dotenv))
           r == r2_storage_init(load_dotenv(environ, dotenv), ctor.head)
       IN  /\ conf' = [called |-> TRUE, raised |-> c.raised, error |-> c.error,
                       missing |-> c.missing, config |-> c.config, before |-> environ]
           /\ ctor' = [ctor EXCEPT !.pc = IF r.error = "none" THEN "constructed"
                                          ELSE "raised",
                                   !.attrs = r.attrs, !.error = r.error,
                                   !.head_called = r.head_called]
    /\ UNCHANGED notCtor

\* the __init__ of the owner goes on after its R2Storage() call, or is left
\* by the exception of that call
OwnerConstruct ==
    /\ ctor.pc \in {"constructed", "raised"}
    /\ ctor.owner_pc = "new"
    /\ ctor' = [ctor EXCEPT !.owner_pc = ctor.pc]
    /\ UNCHANGED <<environ, conf>>
    /\ UNCHANGED notCtor

CtorNext == R2StorageConstruct \/ OwnerConstruct

Init == SchedInit /\ SyncIdle /\ CallIdle /\ BackupIdle /\ StoreIdle /\ ConfIdle
           /\ CtorIdle

Next == SchedNext

Spec == Init /\ [][Next]_vars

SyncSpecInit == SyncInit /\ SchedIdle /\ CallIdle /\ BackupIdle /\ StoreIdle /\ ConfIdle
        /\ CtorIdle

SyncSpec == SyncSpecInit /\ [][SyncNext]_vars

CallSpecInit == CallInit /\ SchedIdle /\ BackupIdle /\ StoreIdle /\ ConfIdle
        /\ CtorIdle

CallSpec == CallSpecInit /\ [][CallNext]_vars

BackupSpecInit == BackupInit /\ SchedIdle /\ SyncIdle /\ CallIdle /\ StoreIdle /\ ConfIdle
        /\ CtorIdle

BackupSpec == BackupSpecInit /\ [][BackupNext]_vars

StoreSpecInit == StoreInit /\ SchedIdle /\ SyncIdle /\ CallIdle /\ BackupIdle /\ ConfIdle
        /\ CtorIdle

StoreSpec == StoreSpecInit /\ [][StoreNext]_vars

ConfSpecInit ==
    ConfInit /\ SchedIdle /\ SyncIdle /\ CallIdle /\ BackupIdle /\ StoreIdle
        /\ CtorIdle

ConfSpec == ConfSpecInit /\ [][ConfNext]_vars

CtorSpecInit ==
    CtorInit /\ SchedIdle /\ SyncIdle /\ CallIdle /\ BackupIdle /\ StoreIdle

CtorSpec == CtorSpecInit /\ [][CtorNext]_vars

(***************************************************************************)
(* Properties of the scheduler                                             *)
(***************************************************************************)
ExecutedJobs == [i \in 1..Len(executed) |-> executed[i].job]

\* the jobs a run_pending call entered at tick.at had to run
DueSet == { j \in JobNames : tick.nr[j] <= tick.at }

\* C1: within one poll tick a job whose action reports failure or raises
\* never blocks the other due jobs: when run_pending has returned to the
\* loop, every job that was due at that tick has been executed, whatever the
\* outcomes, and no exception of a job action ever reaches the loop of run().
C1_FailingJobDoesNotBlockOthers ==
    /\ escaped # "job"
    /\ pc = "sleep" => \A j \in DueSet : \E i \in 1..Len(executed) : executed[i].job = j
    /\ pc = "running" =>
          \A j \in DueSet : \/ \E i \in 1..Len(executed) : executed[i].job = j
                            \/ \E i \in 1..Len(runnable) : runnable[i] = j

\* a tick in which the first of several due jobs failed and the later ones ran
C1_Witness ==
    /\ pc = "sleep"
    /\ Len(executed) >= 2
    /\ executed[1].outcome \in {"failed", "raised"}
    /\ Cardinality(DueSet) >= 2

\* p is a trigger time of job j's cadence for a job that last ran at lr
IsCadencePoint(j, lr, p) ==
    CASE j \in {"content_sync"} -> p = lr + 6 * Hour
      [] j \in {"health_check"} -> p = lr + Hour
      [] j \in {"backup"}       -> p % Day = 2 * Hour
      [] j \in {"cleanup"}      -> p % Week = 6 * Day + 3 * Hour

\* the distance between two trigger times of job j's cadence
CadencePeriod(j) ==
    CASE j \in {"content_sync"} -> 6 * Hour
      [] j \in {"health_check"} -> Hour
      [] j \in {"backup"}       -> Day
      [] j \in {"cleanup"}      -> Week

C2_WitnessDueAgain ==
    /\ pc = "running"
    /\ \E j \in DueSet : tick.lr[j] # Unset

\* C3: the polling loop survives a bad tick: from the handler of an exception
\* that escaped run_pending the loop only goes on, after its sleep, to a
\* further run_pending call (or is interrupted), and the loop only ever
\* stops by the interrupt signal.
C3_LoopSurvivesBadTick ==
    [][ /\ pc = "caught" => pc' \in {"caught", "run_pending", "stopped"}
        /\ (pc # "stopped" /\ pc' = "stopped") => (interrupted' /\ ~interrupted)
        /\ (pc = "caught" /\ pc' = "run_pending") => now' = now + PollTicks ]_vars

\* run_pending is running again after the tick before ended in an exception
C3_Witness ==
    /\ pc = "running"
    /\ afterError
    /\ faults >= 1
    /\ ~interrupted

\* C4: one poll tick at time tick.at executes exactly the registered jobs
\* whose next_run <= tick.at, each once, one after the other, in ascending
\* next_run order with ties in registration order; no other job is executed.
C4_TickRunsExactlyDueJobsInOrder ==
    /\ pc \in {"running", "sleep"} =>
          /\ \A i \in 1..Len(executed) : executed[i].job \in DueSet
          /\ \A i, k \in 1..Len(executed) :
                i < k =>
                  /\ executed[i].job # executed[k].job
                  /\ executed[i].finished <= executed[k].started
                  /\ \/ tick.nr[executed[i].job] < tick.nr[executed[k].job]
                     \/ /\ tick.nr[executed[i].job] = tick.nr[executed[k].job]
                        /\ RegIndex(executed[i].job) < RegIndex(executed[k].job)
          /\ \A i \in 1..Len(executed) :
                /\ tick.at <= executed[i].started
                /\ executed[i].started <= executed[i].finished
    /\ pc = "sleep" => { executed[i].job : i \in 1..Len(executed) } = DueSet

\* a completed tick that ran two jobs in an order that is not the
\* registration order, while a third job was not due and did not run
C4_Witness ==
    /\ pc = "sleep"
    /\ Len(executed) = 2
    /\ RegIndex(executed[1].job) > RegIndex(executed[2].job)
    /\ DueSet # JobNames

\* a completed tick that ran two jobs with the same next_run
C4_WitnessTie ==
    /\ pc = "sleep"
    /\ Len(executed) = 2
    /\ tick.nr[executed[1].job] = tick.nr[executed[2].job]

AdhocDone == pc = "constructed" /\ adhoc.name # NoValue

C6_UnknownNameRunsNothing ==
    AdhocDone =>
        IF adhoc.name \in {"backup", "content_sync", "cleanup", "health_check"}
        THEN adhoc.ran = <<adhoc.name>>
        ELSE /\ adhoc.ret = FALSE
             /\ adhoc.ran = <<>>
             /\ adhoc.outcome = NoValue
             /\ next_run = adhoc.nr
             /\ last_run = adhoc.lr
             /\ now = adhoc.at

\* run_job_once was called with a name that is not registered
C6_Witness ==
    /\ AdhocDone
    /\ adhoc.name = "reindex"
    /\ adhoc.ret = FALSE

\* C7 as claimed: an ad-hoc run reports the job's real outcome: run_job_once
\* returns True, and run-job prints the success line and exits with 0, only
\* when the job's action succeeded; when the action reported failure or
\* raised, run_job_once returns False and run-job prints the failure line
\* and exits with 1.
C7_AdhocRunSurfacesOutcome ==
    (AdhocDone /\ adhoc.name \in JobNames) =>
        /\ adhoc.ret <=> (adhoc.outcome = "ok")
        /\ cli.line # NoValue =>
              IF adhoc.outcome = "ok"
              THEN cli.line = "completed successfully" /\ cli.exit = 0
              ELSE cli.line = "failed" /\ cli.exit = 1

(***************************************************************************)
(* Properties of ContentSync                                               *)
(***************************************************************************)
DirectCallDone == syncpc = AtIdle /\ call.source # NoValue

\* C8 as claimed: sync_featured_content is atomic per call: when the database
\* fails while the connection is obtained, at an existence check, at an
\* insert or at the commit, the call returns Failure (False) instead of
\* raising and the committed content of the database is what it was before
\* the call; without a failure the call returns True.
C8_SyncFeaturedAtomicOrFailure ==
    DirectCallDone =>
        /\ (call.hit /\ call.fault.point \in {"connect", "check", "insert", "commit"}) =>
              (call.ret = "False" /\ db = call.before)
        /\ ~call.hit => call.ret = "True"

\* the featured copies a target table holds of one source post
FeaturedCopies(rows, g) ==
    { r \in rows : r.post_type = "featured_content" /\ r.guid = g }

\* C9 as claimed: sync_featured_content run twice in succession for the same
\* source and target, with the same recent source posts and no database
\* failure, inserts no row the second time, and the target never holds two
\* featured copies of one source post.
C9_SecondSyncInsertsNothing ==
    ( /\ DirectCallDone
      /\ prevCall.source = call.source /\ prevCall.target = call.target
      /\ prevCall.ret = "True" /\ call.ret = "True"
      /\ ~prevCall.hit /\ ~call.hit
      /\ prevCall.recent = call.recent ) =>
        /\ call.inserted = 0
        /\ \A r \in db[PostsTable(<<call.target, "_">>)] :
              Cardinality(FeaturedCopies(db[PostsTable(<<call.target, "_">>)], r.guid)) <= 1

\* C10 as claimed: every run_full_sync invocation invokes all seven step
\* calls, whatever database failure one of the steps met.
C10_AllSevenStepsInvoked ==
    (syncpc = AtIdle /\ fs.ret # NoValue) =>
        fs.invoked = [i \in 1..Len(FullSyncSteps) |-> i]

(***************************************************************************)
(* Properties of single ContentSync calls                                  *)
(***************************************************************************)
\* C11 as claimed: get_recent_posts returns the empty list and raises
\* nothing whenever the database fails during the call, be it while the
\* connection is obtained, while the cursor is created or while the query
\* is executed.
C11_RecentPostsEmptyOnDbFailure ==
    (rp.prefix # NoValue /\ rp.hit) => (rp.res = "rows" /\ rp.rows = <<>>)

\* the rows the last sync_user_data call added to its target table
UdTarget == UsersTable(ud.target)
UdSource == UsersTable(ud.source)
UdInserted == db[UdTarget] \ ud.before[UdTarget]

\* C19: sync_user_data deduplicates by email: it inserts a source user only
\* if no row of the target has that email, the rows inserted earlier in
\* the same call included; a target without duplicate emails has none
\* after the call, so no sequence of calls creates one; a call repeated
\* after a successful one with unchanged source users inserts nothing.
C19_UserSyncDeduplicatesByEmail ==
    ud.source # NoValue =>
        /\ db = [ud.before EXCEPT ![UdTarget] = ud.before[UdTarget] \cup UdInserted]
        /\ \A u \in UdInserted :
              /\ u \in ud.before[UdSource]
              /\ ~\E r \in ud.before[UdTarget] : r.user_email = u.user_email
              /\ \A v \in UdInserted : v.user_email = u.user_email => v = u
        /\ NoDuplicateEmail(ud.before[UdTarget]) => NoDuplicateEmail(db[UdTarget])
        /\ ud.ret # "True" => UdInserted = {}
        /\ ( /\ prevUd.source = ud.source /\ prevUd.target = ud.target
             /\ prevUd.ret = "True"
             /\ prevUd.before[UdSource] = ud.before[UdSource] ) => UdInserted = {}

\* a call over two recent source users with one email, unknown to the
\* target: one of them was inserted, the other was not
C19_Witness ==
    /\ ud.source # NoValue
    /\ ud.ret = "True"
    /\ Cardinality(UdInserted) = 1
    /\ \E u \in ud.before[UdSource], v \in ud.before[UdSource] :
          /\ u # v
          /\ u.user_email = v.user_email
          /\ u.age <= RecentHours /\ v.age <= RecentHours
          /\ u \in UdInserted
          /\ ~\E r \in ud.before[UdTarget] : r.user_email = u.user_email

\* a call repeated after a successful call that had inserted a user
C19_WitnessRepeated ==
    /\ prevUd.source = ud.source /\ prevUd.target = ud.target
    /\ prevUd.source # NoValue
    /\ prevUd.ret = "True" /\ ud.ret = "True"
    /\ prevUd.before[UdTarget] # ud.before[UdTarget]
    /\ UdInserted = {}

(***************************************************************************)
(* Properties of the connection handling                                   *)
(***************************************************************************)
\* C12 as claimed: the database connection of the ContentSync object lives
\* only inside run_full_sync, which closes and unsets it when it completes
\* and when it fails: in every state of the running scheduler in which no
\* run_full_sync is in progress, also after a health check, the ContentSync
\* object holds no open connection.  (A job runs within one step of the
\* scheduler process, so no state below lies inside run_full_sync.)
C12_NoConnectionOutsideFullSync ==
    pc \in {"run_pending", "running", "sleep", "caught"} => db_connection = "none"

(***************************************************************************)
(* Properties of DatabaseBackup                                            *)
(***************************************************************************)
\* C13: full_backup_process returns the outcome of the upload: when the
\* artifact was created it returns True exactly when the upload succeeded,
\* whatever happened in the cleanup; when the creation failed it returns
\* False.
C13_FullBackupResultIsUploadOutcome ==
    bk.op = "full" =>
        IF bk.outcome = "ok"
        THEN bk.ret = "True" <=> bk.upload = "ok"
        ELSE bk.ret = "False"

\* a full backup whose upload succeeded and whose cleanup met a deletion
\* error
C13_Witness ==
    /\ bk.op = "full"
    /\ bk.outcome = "ok"
    /\ bk.upload = "ok"
    /\ bk.cleanupFailed
    /\ bk.ret = "True"

\* a full backup whose creation failed
C13_WitnessCreationFailed ==
    /\ bk.op = "full"
    /\ bk.outcome = "failed"
    /\ bk.ret = "False"

\* the files of the directory a cleanup call had to delete: the *.sql files
\* with a modification time before its cutoff
WasExpired(n) ==
    /\ n[Len(n)] = ".sql"
    /\ bk.before[n].mtime < bk.at - bk.retention * DayTicks

\* C14 as claimed: an error at the deletion of one artifact is logged and
\* skipped: every other artifact older than the cutoff is deleted by that
\* same cleanup_old_backups call.
C14_DeletionErrorSkipsOnlyThatFile ==
    bk.op = "cleanup" =>
        \A n \in DOMAIN bk.before :
            (WasExpired(n) /\ n \notin bk.locked) => n \notin DOMAIN files

\* C15 as claimed: any two sequential create_backup calls write to distinct
\* artifact paths, so the artifact of the earlier call still holds the dump
\* of that call.
C15_CreateBackupPathsDistinct ==
    \A i, j \in 1..Len(creates) :
        i < j =>
            /\ creates[i].path # creates[j].path
            /\ creates[i].path \in DOMAIN files => files[creates[i].path].dump = i

\* C16: without a deletion error, cleanup_old_backups(retention_days)
\* deletes exactly the *.sql files whose modification time lies before now
\* minus retention_days and leaves every other file as it was; with 30 days
\* a file of 31 days goes and a file of 29 days stays.
C16_CleanupDeletesExactlyExpired ==
    (bk.op = "cleanup" /\ ~bk.cleanupFailed) =>
        files = [n \in { m \in DOMAIN bk.before : ~WasExpired(m) } |-> bk.before[n]]

\* a cleanup with 30 days of retention over a file of 31 days and a file
\* of 29 days: the first is gone, the second is still there
C16_Witness ==
    /\ bk.op = "cleanup"
    /\ ~bk.cleanupFailed
    /\ bk.retention = 30
    /\ \E a \in DOMAIN bk.before, b \in DOMAIN bk.before :
          /\ bk.before[a].mtime = bk.at - 31 * DayTicks
          /\ bk.before[b].mtime = bk.at - 29 * DayTicks
          /\ a \notin DOMAIN files
          /\ b \in DOMAIN files

(***************************************************************************)
(* Properties of R2Storage and of the health check                         *)
(***************************************************************************)
\* C17 as claimed: an operation of the constructed storage client that
\* meets an error, be it an error response of the service or an error that
\* is none (a connection failure), raises nothing and returns its failure
\* signal or an empty result; this holds for upload, download, list,
\* delete, exists, metadata and cleanup.
C17_StorageOperationsNeverRaise ==
    (r2call.op # NoValue /\ r2call.err # "none") =>
        /\ ~r2call.raised
        /\ r2call.res \in {"False", "None", "empty", "0"}

\* C18 as claimed: a health check computes both flags from live probes: the
\* database flag is true exactly when the database probe succeeded, the
\* storage flag is true exactly when the listing of the bucket succeeded
\* (a failing listing gives false), and the storage probe runs also when
\* the database probe failed.
C18_HealthFlagsFollowProbes ==
    health.db_fault # NoValue =>
        /\ health.db_healthy <=>
              ~(\/ health.db_fault \in {"cursor", "execute"}
                \/ (health.db_fault = "connect" /\ health.connBefore # "open"))
        /\ health.r2_healthy <=> (health.r2_err = "none")

(***************************************************************************)
(* Properties of get_config                                                *)
(***************************************************************************)
RequiredSecrets == {"MYSQL_PASSWORD", "REDIS_PASSWORD", "R2_ACCESS_KEY_ID",
                    "R2_SECRET_ACCESS_KEY", "R2_ENDPOINT"}

\* a required secret is absent from the environment or empty there
SecretMissing ==
    \E k \in RequiredSecrets : k \notin DOMAIN environ \/ environ[k] = <<>>

\* a number setting is set to a text that is no sequence of digits
NumberRejected ==
    \E k \in {"REDIS_PORT", "BACKUP_RETENTION_DAYS"} :
        /\ k \in DOMAIN environ
        /\ \/ environ[k] = <<>>
           \/ \E i \in DOMAIN environ[k] :
                 environ[k][i] \notin {"0", "1", "2", "3", "4", "5", "6", "7", "8", "9"}

\* the returned configuration has every setting, with the text of the
\* environment or else the default
EverySettingResolved ==
    /\ DOMAIN conf.config =
          {"MYSQL_HOST", "MYSQL_DATABASE", "MYSQL_USER", "MYSQL_PASSWORD",
           "REDIS_HOST", "REDIS_PASSWORD", "REDIS_PORT", "R2_ACCOUNT_ID",
           "R2_ACCESS_KEY_ID", "R2_SECRET_ACCESS_KEY", "R2_BUCKET_NAME",
           "R2_ENDPOINT", "SITE1_DOMAIN", "SITE2_DOMAIN", "BACKUP_RETENTION_DAYS",
           "TZ"}
    /\ \A k \in DOMAIN conf.config \ {"REDIS_PORT", "BACKUP_RETENTION_DAYS"} :
          k \in DOMAIN environ => conf.config[k] = environ[k]
    /\ conf.config["R2_BUCKET_NAME"] = <<"content-ops-backups">>
    /\ conf.config["MYSQL_HOST"] =
          IF "MYSQL_HOST" \in DOMAIN environ THEN environ["MYSQL_HOST"] ELSE <<"mysql">>
    /\ conf.config["REDIS_PORT"] =
          IF "REDIS_PORT" \notin DOMAIN environ THEN 6379
          ELSE IF environ["REDIS_PORT"] = <<"6", "3", "8", "0">> THEN 6380 ELSE 6381
    /\ conf.config["BACKUP_RETENTION_DAYS"] =
          IF "BACKUP_RETENTION_DAYS" \in DOMAIN environ THEN 7 ELSE 30

\* C20 as claimed: get_config raises, returning no configuration, if and
\* only if at least one required secret is absent or empty in the
\* environment; when every required secret is present it returns a
\* configuration with every setting resolved.
C20_AsClaimed ==
    conf.called =>
        /\ conf.raised <=> SecretMissing
        /\ conf.raised => conf.config = <<>>
        /\ ~SecretMissing => (~conf.raised /\ EverySettingResolved)

\* C20 (amended): get_config raises, returning no configuration, if and only
\* if at least one required secret is absent or empty in the environment or
\* REDIS_PORT or BACKUP_RETENTION_DAYS is set to a text that is not a
\* number; in every other case it returns a configuration with every
\* setting resolved to its text in the environment or to its default.
C20_RaisesIffSecretMissingOrNumberRejected ==
    conf.called =>
        /\ conf.raised <=> (SecretMissing \/ NumberRejected)
        /\ conf.raised => conf.config = <<>>
        /\ ~conf.raised => EverySettingResolved

\* every required secret is present, the call returned a configuration
\* with a default and a parsed number in it
C20_Witness ==
    /\ conf.called
    /\ ~conf.raised
    /\ ~SecretMissing
    /\ "MYSQL_HOST" \notin DOMAIN environ
    /\ conf.config["MYSQL_HOST"] = <<"mysql">>
    /\ conf.config["REDIS_PORT"] = 6380

\* every required secret is present and the call raised over a number
C20_WitnessNumberRejected ==
    /\ conf.called
    /\ conf.raised
    /\ ~SecretMissing
    /\ NumberRejected

\* a required secret is set to the empty text and the call raised
C20_WitnessEmptySecret ==
    /\ conf.called
    /\ conf.raised
    /\ ~NumberRejected
    /\ "R2_ENDPOINT" \in DOMAIN environ
    /\ environ["R2_ENDPOINT"] = <<>>
    /\ conf.missing = <<"R2_ENDPOINT">>

(***************************************************************************)
(* Properties of the construction                                          *)
(***************************************************************************)
\* C21 as claimed: while an R2Storage object is constructed every attribute
\* is assigned before it is read (the bucket name before the head_bucket
\* test of _initialize_client): with a valid configuration and a reachable
\* bucket the construction completes with config, client and bucket_name
\* assigned, and it fails only on a credential or service error.
C21_AttributesAssignedBeforeRead ==
    ctor.pc \in {"constructed", "raised"} =>
        /\ ctor.error # "AttributeError"
        /\ (~conf.raised /\ ctor.head = "ok") =>
              /\ ctor.pc = "constructed"
              /\ {"config", "client", "bucket_name"} \subseteq ctor.attrs
        /\ ctor.pc = "raised" =>
              ctor.error \in {"ValueError", "NoCredentialsError", "ClientError",
                              "EndpointConnectionError"}

====
